---------------------------- MODULE Spec2Model ----------------------------
(***************************************************************************)
(* Job listing of IBMBackendService (qiskit_ibm_provider/                  *)
(* ibm_backend_service.py): the pagination loop of _get_jobs, the filter   *)
(* helpers _update_creation_date_filter and _merge_logical_filters, and    *)
(* the reconstruction loop of jobs() with the composite-job lookup job().  *)
(*                                                                         *)
(* Python dicts are functions from string keys to values, lists are        *)
(* sequences, None is the integer -1.  Creation dates are the integers     *)
(* 1..MaxDate, ordered like the ISO strings the code compares.             *)
(***************************************************************************)
EXTENDS Integers, Sequences, FiniteSets, TLC

VARIABLES
    passed,               \* the mapping the caller handed to _get_jobs: its
                          \* contents, and whether the local api_filter is it
    store,                \* remote job records, in the server's ascending order
    server_cap,           \* largest page the server returns for one request
    pc,                   \* "idle", "get_jobs", "restore", "returned", "done", "raised"
    caller,               \* who runs _get_jobs: "direct", "jobs", "job" (called
                          \* by jobs) or "job_direct" (job called by the user)
    api_filter,           \* _get_jobs: filter of the next request
    initial_filter,       \* _get_jobs: deep copy of the filter passed in
    limit,                \* _get_jobs: limit argument
    skip,                 \* _get_jobs: offset of the next request
    descending,           \* _get_jobs: sort direction
    current_page_limit,   \* _get_jobs: page size of the next request
    job_responses,        \* _get_jobs: records accumulated so far
    sent,                 \* requests issued by the running _get_jobs call
    pages,                \* pages received by the running _get_jobs call
    args,                 \* arguments of the running top-level call
    listing,              \* jobs(): the records returned by its _get_jobs call
    idx,                  \* jobs(): position of the for loop in listing
    job_list,             \* jobs(): jobs built so far
    composite_ids,        \* jobs(): composite ids already handled
    error,                \* exception that ended the call, "" if none
    reply,                \* job(): what job_get answered; else what the exception carries
    ret,                  \* value returned by a call that returns no listing
    other,                \* locals of a second, concurrent jobs() call
    merged,               \* _merge_logical_filters: cur_filter after the last merge
    history               \* _merge_logical_filters: the arguments of each call made

vars == <<passed, store, server_cap, pc, caller, api_filter, initial_filter, limit,
          skip, descending, current_page_limit, job_responses, sent, pages,
          args, listing, idx, job_list, composite_ids, error, reply, ret,
          other, merged, history>>

(***************************************************************************)
(* Bounds of the model.                                                    *)
(***************************************************************************)
MaxJobs == 3
MaxDate == 2
MaxCap == 2
MaxLimit == 2
MaxSkip == 1
MaxRequests == 5
MaxMerges == 3

(***************************************************************************)
(* Program constants.                                                      *)
(***************************************************************************)
None == -1
DefaultWindow == 20

(***************************************************************************)
(* Python values.                                                          *)
(***************************************************************************)
EmptyDict == [k \in {} |-> None]

Has(d, k) == k \in DOMAIN d

Pop(d, k) == [x \in (DOMAIN d) \ {k} |-> d[x]]

Put(d, k, v) == [x \in (DOMAIN d) \cup {k} |-> IF x = k THEN v ELSE d[x]]

Truthy(n) == n # None /\ n # 0

Range(s) == {s[i] : i \in DOMAIN s}

Reverse(s) == [i \in 1..Len(s) |-> s[Len(s) + 1 - i]]

MaxOf(s) == CHOOSE x \in Range(s) : \A y \in Range(s) : y <= x

MinOf(s) == CHOOSE x \in Range(s) : \A y \in Range(s) : x <= y

Smaller(a, b) == IF a <= b THEN a ELSE b

(***************************************************************************)
(* _update_creation_date_filter.  The code pops the bounds it reads out of *)
(* cur_dt_filter, so the operator returns both the new filter and what is  *)
(* left of cur_dt_filter.                                                  *)
(***************************************************************************)
PopBounds(cur_dt_filter, ops, half) ==
    LET found == SelectSeq(ops, LAMBDA op : Has(cur_dt_filter, op))
        vals == [i \in 1..Len(found) |-> cur_dt_filter[found[i]]]
        cur1 == [x \in (DOMAIN cur_dt_filter) \ Range(found) |-> cur_dt_filter[x]]
        takes == Has(cur1, "between") /\ Len(cur1["between"]) > half - 1
    IN  [list |-> IF takes THEN Append(vals, cur1["between"][half]) ELSE vals,
         cur |-> IF takes THEN Pop(cur1, "between") ELSE cur1]

\* the new bounds alone, the bounds of cur_dt_filter dropped
UpdateCreationDateFilterFresh(cur_dt_filter, gte_dt, lte_dt) ==
    [filter |-> IF gte_dt # None /\ lte_dt # None THEN [between |-> <<gte_dt, lte_dt>>]
                ELSE IF gte_dt # None THEN [gte |-> gte_dt]
                ELSE IF lte_dt # None THEN [lte |-> lte_dt]
                ELSE EmptyDict,
     cur |-> EmptyDict]

UpdateCreationDateFilter(cur_dt_filter, gte_dt, lte_dt) ==
    LET lo == PopBounds(cur_dt_filter, <<"gt", "gte">>, 1)
        gte == IF gte_dt # None THEN gte_dt
               ELSE IF Len(lo.list) > 0 THEN MaxOf(lo.list) ELSE None
        cur1 == IF gte_dt # None THEN cur_dt_filter ELSE lo.cur
        hi == PopBounds(cur1, <<"lt", "lte">>, 2)
        lte == IF lte_dt # None THEN lte_dt
               ELSE IF Len(hi.list) > 0 THEN MinOf(hi.list) ELSE None
        cur2 == IF lte_dt # None THEN cur1 ELSE hi.cur
        new_dt_filter ==
            IF gte # None /\ lte # None THEN [between |-> <<gte, lte>>]
            ELSE IF gte # None THEN [gte |-> gte]
            ELSE IF lte # None THEN [lte |-> lte]
            ELSE EmptyDict
    IN  [filter |-> new_dt_filter, cur |-> cur2]

(***************************************************************************)
(* _merge_logical_filters: returns cur_filter after the in-place merge.    *)
(***************************************************************************)
\* line 427 taken for a key cur_filter already has: the list is replaced
MergeKeyOverwrites(cur_filter, new_filter, key) ==
    IF Has(new_filter, key)
    THEN Put(cur_filter, key, new_filter[key])
    ELSE cur_filter

MergeKey(cur_filter, new_filter, key) ==
    IF Has(new_filter, key)
    THEN IF Has(cur_filter, key)
         THEN Put(cur_filter, key, cur_filter[key] \o new_filter[key])
         ELSE Put(cur_filter, key, new_filter[key])
    ELSE cur_filter

\* the loop of line 422 run over "and" alone
MergeLogicalFiltersAndOnly(cur_filter, new_filter) ==
    MergeKey(cur_filter, new_filter, "and")

MergeLogicalFilters(cur_filter, new_filter) ==
    MergeKey(MergeKey(cur_filter, new_filter, "or"), new_filter, "and")

(***************************************************************************)
(* _get_jobs, lines 338-366: the filter of the next request, computed from *)
(* the initial filter and the last record of the page just received.       *)
(***************************************************************************)
\* the watermark read from the wrong key of the record
WatermarkDateFromId(last_job) == last_job.job_id

WatermarkDate(last_job) == last_job.creation_date

\* the two directions exchanged: descending moves the lower bound
DateStepSwapped(copied, last_job, desc) ==
    LET cur_dt_filter == IF Has(copied, "creationDate")
                         THEN copied["creationDate"] ELSE EmptyDict
        popped == Pop(copied, "creationDate")
        upd == IF desc
               THEN UpdateCreationDateFilter(cur_dt_filter, WatermarkDate(last_job), None)
               ELSE UpdateCreationDateFilter(cur_dt_filter, None, WatermarkDate(last_job))
    IN  IF upd.cur = EmptyDict
        THEN Put(popped, "creationDate", upd.filter)
        ELSE MergeLogicalFilters(popped,
                 [and |-> <<[creationDate |-> upd.filter], upd.cur>>])

DateStep(copied, last_job, desc) ==
    LET cur_dt_filter == IF Has(copied, "creationDate")
                         THEN copied["creationDate"] ELSE EmptyDict
        popped == Pop(copied, "creationDate")
        upd == IF desc
               THEN UpdateCreationDateFilter(cur_dt_filter, None, WatermarkDate(last_job))
               ELSE UpdateCreationDateFilter(cur_dt_filter, WatermarkDate(last_job), None)
    IN  IF upd.cur = EmptyDict
        THEN Put(popped, "creationDate", upd.filter)
        ELSE MergeLogicalFilters(popped,
                 [and |-> <<[creationDate |-> upd.filter], upd.cur>>])

\* the id condition put in place of the and list
IdStepReplacesAnd(filter, last_job) ==
    Put(filter, "and", <<[id |-> [nin |-> <<last_job.job_id>>]]>>)

IdStep(filter, last_job) ==
    IF ~Has(filter, "id")
    THEN Put(filter, "id", [nin |-> <<last_job.job_id>>])
    ELSE MergeLogicalFilters(Pop(filter, "id"),
             [and |-> <<[id |-> [nin |-> <<last_job.job_id>>]],
                        [id |-> filter["id"]]>>])

NextFilter(initial, last_job, desc) ==
    IdStep(DateStep(initial, last_job, desc), last_job)

(***************************************************************************)
(* jobs(), lines 233-248: the filter built from the date arguments (the    *)
(* arguments are the UTC timestamps local_to_utc(...).isoformat() yields). *)
(***************************************************************************)
BuildFilter(start_datetime, end_datetime) ==
    IF start_datetime # None \/ end_datetime # None
    THEN [creationDate |->
             UpdateCreationDateFilter(EmptyDict, start_datetime, end_datetime).filter]
    ELSE EmptyDict

(***************************************************************************)
(* Argument values of jobs().  A value carries its Python type: None, a    *)
(* str, a JobStatus member or a list.  In a filter, a field compared with  *)
(* a plain value, {"status": v} or {"tags": v}, is written [eq |-> v].     *)
(***************************************************************************)
NoneArg == [type |-> "NoneType"]

Str(v) == [type |-> "str", value |-> v]

Member(name) == [type |-> "JobStatus", name |-> name]

List(items) == [type |-> "list", items |-> items]

\* truth value of an argument (if status:, if job_tags:)
ArgTruthy(v) ==
    CASE v.type = "NoneType" -> FALSE
      [] v.type = "str" -> v.value # ""
      [] v.type = "list" -> Len(v.items) > 0
      [] v.type = "JobStatus" -> TRUE

\* str.upper() on the strings the model passes
Upper ==
    [x \in {"RUNNING", "running", "Done", "error", "bogus", "",
            "OR", "AND", "or", "And", "XOR", "xor"} |->
        CASE x = "running" -> "RUNNING"
          [] x = "Done" -> "DONE"
          [] x = "error" -> "ERROR"
          [] x = "bogus" -> "BOGUS"
          [] x = "or" -> "OR"
          [] x = "And" -> "AND"
          [] x = "xor" -> "XOR"
          [] OTHER -> x]

\* the members of qiskit's JobStatus
JobStatusNames ==
    {"INITIALIZING", "QUEUED", "VALIDATING", "RUNNING", "CANCELLED", "DONE",
     "ERROR"}

Eq(v) == [eq |-> v]

(***************************************************************************)
(* _get_status_filter and _get_status_db_filter.  A status code            *)
(* ApiJobStatus.X.value is written "X".  The result is the filter and the  *)
(* exception raised, with the value its message names.                     *)
(***************************************************************************)
Built(f) == [filter |-> f, raised |-> "", named |-> ""]

ValueError(named) ==
    [filter |-> EmptyDict, raised |-> "IBMBackendValueError", named |-> named]

\* lines 515-536 with DONE mapped to a code of its own name
StatusTableSameName(name) ==
    CASE name = "INITIALIZING" -> [status |-> [inq |-> <<"CREATING", "CREATED">>]]
      [] name = "VALIDATING" -> [status |-> [inq |-> <<"VALIDATING", "VALIDATED">>]]
      [] name = "RUNNING" -> [status |-> Eq("RUNNING")]
      [] name = "QUEUED" -> [status |-> Eq("QUEUED")]
      [] name = "CANCELLED" -> [status |-> Eq("CANCELLED")]
      [] name = "DONE" -> [status |-> Eq("DONE")]
      [] name = "ERROR" -> [status |-> [regexp |-> "^ERROR"]]

\* lines 515-536
StatusTable(name) ==
    CASE name = "INITIALIZING" -> [status |-> [inq |-> <<"CREATING", "CREATED">>]]
      [] name = "VALIDATING" -> [status |-> [inq |-> <<"VALIDATING", "VALIDATED">>]]
      [] name = "RUNNING" -> [status |-> Eq("RUNNING")]
      [] name = "QUEUED" -> [status |-> Eq("QUEUED")]
      [] name = "CANCELLED" -> [status |-> Eq("CANCELLED")]
      [] name = "DONE" -> [status |-> Eq("COMPLETED")]
      [] name = "ERROR" -> [status |-> [regexp |-> "^ERROR"]]

\* _get_status_filter, lines 505-543
GetStatusFilter(status) ==
    IF status.type = "str" /\ Upper[status.value] \notin JobStatusNames
    THEN ValueError(status.value)
    ELSE LET name == IF status.type = "str" THEN Upper[status.value]
                     ELSE status.name
         IN  IF name \in JobStatusNames THEN Built(StatusTable(name))
             ELSE ValueError(name)

\* _get_status_db_filter, lines 486-489: the loop over a list of statuses
RECURSIVE StatusListFilter(_, _)
StatusListFilter(items, done) ==
    IF items = <<>> THEN Built([or |-> done])
    ELSE LET r == GetStatusFilter(Head(items))
         IN  IF r.raised # "" THEN r
             ELSE StatusListFilter(Tail(items), Append(done, r.filter))

\* _get_status_db_filter, lines 484-493
GetStatusDbFilter(status_arg) ==
    IF status_arg.type = "list" THEN StatusListFilter(status_arg.items, <<>>)
    ELSE GetStatusFilter(status_arg)

\* dict.update
Update(d, e) ==
    [k \in (DOMAIN d) \cup (DOMAIN e) |-> IF k \in DOMAIN e THEN e[k] ELSE d[k]]

\* jobs(), lines 249-263, for a non-empty job_tags, matching the operator as given
TagsFilterCaseSensitive(api_filter_in, job_tags, job_tags_operator) ==
    IF job_tags_operator = "OR"
    THEN Built(Put(api_filter_in, "tags", [inq |-> job_tags]))
    ELSE IF job_tags_operator = "AND"
    THEN Built(Put(api_filter_in, "and",
                   [i \in 1..Len(job_tags) |-> [tags |-> Eq(job_tags[i])]]))
    ELSE ValueError(job_tags_operator)

\* jobs(), lines 249-263, for a non-empty job_tags
TagsFilter(api_filter_in, job_tags, job_tags_operator) ==
    LET op == Upper[job_tags_operator]
    IN  IF op = "OR"
        THEN Built(Put(api_filter_in, "tags", [inq |-> job_tags]))
        ELSE IF op = "AND"
        THEN Built(Put(api_filter_in, "and",
                       [i \in 1..Len(job_tags) |-> [tags |-> Eq(job_tags[i])]]))
        ELSE ValueError(op)

\* jobs(), lines 232-263 (backend_name and job_name not given)
BuildJobsFilter(status, start_datetime, end_datetime, job_tags, job_tags_operator) ==
    LET st == IF ArgTruthy(status) THEN GetStatusDbFilter(status) ELSE Built(EmptyDict)
        dated == Update(st.filter, BuildFilter(start_datetime, end_datetime))
    IN  IF st.raised # "" THEN st
        ELSE IF ArgTruthy(job_tags)
        THEN TagsFilter(dated, job_tags.items, job_tags_operator)
        ELSE Built(dated)

(***************************************************************************)
(* The remote listing endpoint behind Account.jobs: it filters by the      *)
(* where clause, orders by creationDate, skips, and returns at most        *)
(* min(limit, server_cap) records.  A condition keyed by an operator name  *)
(* instead of a field (bare) has no defined meaning: it is the argument    *)
(* bare, chosen per request.                                               *)
(***************************************************************************)
DateOps == {"gt", "gte", "lt", "lte", "between"}

DateMatches(dt_filter, d) ==
    \A op \in DOMAIN dt_filter :
        CASE op = "gte" -> d >= dt_filter[op]
          [] op = "gt" -> d > dt_filter[op]
          [] op = "lte" -> d <= dt_filter[op]
          [] op = "lt" -> d < dt_filter[op]
          [] op = "between" -> dt_filter[op][1] <= d /\ d <= dt_filter[op][2]

\* the status codes the regular expression ^ERROR matches
ErrorCodes == {"ERROR_CREATING_JOB", "ERROR_VALIDATING_JOB", "ERROR_RUNNING_JOB"}

\* a condition on the status field: equality, inq or regexp ^ERROR
StatusMatches(leaf, status) ==
    \A op \in DOMAIN leaf :
        CASE op = "eq" -> status = leaf[op]
          [] op = "inq" -> status \in Range(leaf[op])
          [] op = "regexp" -> leaf[op] = "^ERROR" /\ status \in ErrorCodes

\* a condition on the tags field: the record carries the tag / one of the tags
TagsMatch(leaf, tags) ==
    \A op \in DOMAIN leaf :
        CASE op = "eq" -> leaf[op] \in Range(tags)
          [] op = "inq" -> Range(leaf[op]) \cap Range(tags) # {}

RECURSIVE Matches(_, _, _)
Matches(f, job, bare) ==
    \A k \in DOMAIN f :
        CASE k = "creationDate" -> DateMatches(f[k], job.creation_date)
          [] k = "status" -> StatusMatches(f[k], job.status)
          [] k = "tags" -> TagsMatch(f[k], job.tags)
          [] k = "id" -> job.job_id \notin Range(f[k]["nin"])
          [] k = "experimentTag" -> f[k] \in Range(job.tags)
          [] k = "and" -> \A i \in DOMAIN f[k] : Matches(f[k][i], job, bare)
          [] k = "or" -> \E i \in DOMAIN f[k] : Matches(f[k][i], job, bare)
          [] k \in DateOps -> bare

RECURSIVE HasBare(_)
HasBare(f) ==
    \E k \in DOMAIN f :
        \/ k \in DateOps
        \/ k \in {"and", "or"} /\ \E i \in DOMAIN f[k] : HasBare(f[k][i])

BareOutcomes(f) == IF HasBare(f) THEN BOOLEAN ELSE {TRUE}

Query(f, sk, desc, bare) ==
    LET ordered == IF desc THEN Reverse(store) ELSE store
        matching == SelectSeq(ordered, LAMBDA j : Matches(f, j, bare))
    IN  IF sk >= Len(matching) THEN <<>>
        ELSE SubSeq(matching, sk + 1, Len(matching))

Take(s, n) == IF n >= Len(s) THEN s ELSE SubSeq(s, 1, n)

ListJobs(f, lim, sk, desc, bare) ==
    Take(Query(f, sk, desc, bare), Smaller(lim, server_cap))

(***************************************************************************)
(* Job reconstruction.  A record's malformed flag says that                *)
(* the IBMCircuitJob constructor raises TypeError for it.  Tags carrying   *)
(* IBM_COMPOSITE_JOB_ID_PREFIX are the members of CompositeTags.           *)
(***************************************************************************)
CompositeTags == {"ibm_composite_job_id_1"}

\* a composite id that no record of the store carries
UnusedCompositeId == "ibm_composite_job_id_2"

StartsWithCompositePrefix(tag) == tag \in CompositeTags \cup {UnusedCompositeId}

CompositeJobId(job_info) ==
    SelectSeq(job_info.tags, LAMBDA tag : StartsWithCompositePrefix(tag))

NoJob == [kind |-> "none"]

\* the backends self._provider.get_backend finds
ProviderBackends == {"ibmq_qasm_simulator"}

\* line 388 with the empty name as default
BackendNameNoDefault(job_info) ==
    IF Has(job_info, "backend_name") THEN job_info.backend_name ELSE ""

\* line 388: job_info.get("_backend_info", {}).get("name", "unknown"); the
\* field backend_name of a record is the name entry of its _backend_info
BackendName(job_info) ==
    IF Has(job_info, "backend_name") THEN job_info.backend_name ELSE "unknown"

\* line 390: the lookup raises QiskitBackendNotFoundError for other names
GetBackend(backend_name) ==
    IF backend_name \in ProviderBackends
    THEN [backend |-> [kind |-> "IBMBackend", name |-> backend_name], raised |-> ""]
    ELSE [backend |-> EmptyDict, raised |-> "QiskitBackendNotFoundError"]

\* lines 389-397 with a stand-in that does not take the name looked up
ResolveBackendUnnamed(job_info) ==
    LET found == GetBackend(BackendName(job_info))
    IN  IF found.raised = "" THEN found.backend
        ELSE [kind |-> "IBMRetiredBackend", name |-> "unknown"]

\* lines 389-397
ResolveBackend(job_info) ==
    LET found == GetBackend(BackendName(job_info))
    IN  IF found.raised = "" THEN found.backend
        ELSE [kind |-> "IBMRetiredBackend", name |-> BackendName(job_info)]

NoMessage == [job_id |-> None, cause |-> ""]

\* lines 398-409 with the exception swallowed whatever raise_error is
RestoreCircuitJobSilent(job_info, raise_error) ==
    IF ~job_info.malformed
    THEN [job |-> [kind |-> "circuit", job_id |-> job_info.job_id,
                   backend |-> ResolveBackend(job_info)],
          raised |-> "", message |-> NoMessage]
    ELSE [job |-> NoJob, raised |-> "", message |-> NoMessage]

RestoreCircuitJob(job_info, raise_error) ==
    IF ~job_info.malformed
    THEN [job |-> [kind |-> "circuit", job_id |-> job_info.job_id,
                   backend |-> ResolveBackend(job_info)],
          raised |-> "", message |-> NoMessage]
    ELSE IF raise_error
         THEN [job |-> NoJob, raised |-> "IBMBackendApiProtocolError",
               message |-> [job_id |-> job_info.job_id, cause |-> "TypeError"]]
         ELSE [job |-> NoJob, raised |-> "", message |-> NoMessage]

\* the lookup without the test of line 277
StartsCompositeUnseen(job_info, seen, ignore_composite_jobs) ==
    /\ Len(CompositeJobId(job_info)) > 0
    /\ ~ignore_composite_jobs

\* jobs(), lines 276-277: the record starts a composite-job lookup
StartsComposite(job_info, seen, ignore_composite_jobs) ==
    /\ Len(CompositeJobId(job_info)) > 0
    /\ ~ignore_composite_jobs
    /\ CompositeJobId(job_info)[1] \notin seen

\* tagged records dropped as well when composite jobs are ignored
SkipsCompositeTagged(job_info, seen, ignore_composite_jobs) ==
    /\ Len(CompositeJobId(job_info)) > 0
    /\ (ignore_composite_jobs \/ CompositeJobId(job_info)[1] \in seen)

\* jobs(), lines 276-280: the record is dropped as an already seen composite
SkipsComposite(job_info, seen, ignore_composite_jobs) ==
    /\ Len(CompositeJobId(job_info)) > 0
    /\ ~ignore_composite_jobs
    /\ CompositeJobId(job_info)[1] \in seen

\* job(), lines 565-574, after the sub-job listing has returned
RECURSIVE RestoreSubJobs(_, _)
RestoreSubJobs(responses, sub_jobs) ==
    IF responses = <<>> THEN [sub_jobs |-> sub_jobs, raised |-> ""]
    ELSE LET r == RestoreCircuitJob(Head(responses), TRUE)
         IN  IF r.raised # "" THEN [sub_jobs |-> sub_jobs, raised |-> r.raised]
             ELSE RestoreSubJobs(Tail(responses),
                      IF r.job # NoJob THEN Append(sub_jobs, r.job) ELSE sub_jobs)

CompositeJob(job_id, responses) ==
    LET r == RestoreSubJobs(responses, <<>>)
    IN  IF r.raised # "" THEN [job |-> NoJob, raised |-> r.raised]
        ELSE IF r.sub_jobs = <<>> THEN [job |-> NoJob, raised |-> "IBMJobNotFoundError"]
        ELSE [job |-> [kind |-> "composite", job_id |-> job_id,
                       sub_jobs |-> [i \in 1..Len(r.sub_jobs) |-> r.sub_jobs[i].job_id]],
              raised |-> ""]

(***************************************************************************)
(* Stores and arguments.                                                   *)
(***************************************************************************)
Dates == 1..MaxDate

OptDates == Dates \cup {None}

Limits == (0..MaxLimit) \cup {None}

Skips == 0..MaxSkip

TagChoices == {<<>>} \cup {<<"my_tag", t>> : t \in CompositeTags}

Sorted(d) == \A i, j \in DOMAIN d : i < j => d[i] <= d[j]

StoresOf(n, tagsets, flags) ==
    {[i \in 1..n |-> [job_id |-> i, creation_date |-> d[i], status |-> "COMPLETED",
                      backend_name |-> "ibmq_qasm_simulator",
                      tags |-> t[i], malformed |-> m[i]]] :
        d \in {x \in [1..n -> Dates] : Sorted(x)},
        t \in [1..n -> tagsets], m \in [1..n -> flags]}

PlainStores == UNION {StoresOf(n, {<<>>}, {FALSE}) : n \in 0..MaxJobs}

AllStores == UNION {StoresOf(n, TagChoices, BOOLEAN) : n \in 0..MaxJobs}

Filters == {BuildFilter(s, e) : s \in OptDates, e \in OptDates}

(***************************************************************************)
(* Stores and arguments for the status and tag filters of jobs().          *)
(***************************************************************************)
RecordKinds ==
    {[status |-> "RUNNING", tags |-> <<>>],
     [status |-> "ERROR_RUNNING_JOB", tags |-> <<"a">>],
     [status |-> "COMPLETED", tags |-> <<"a", "b">>]}

FilterStoresOf(n) ==
    {[i \in 1..n |-> [job_id |-> i, creation_date |-> Smaller(i, MaxDate),
                      status |-> k[i].status, tags |-> k[i].tags,
                      backend_name |-> "ibmq_qasm_simulator",
                      malformed |-> FALSE]] :
        k \in [1..n -> RecordKinds]}

FilterStores == UNION {FilterStoresOf(n) : n \in 0..MaxJobs}

StatusStrings == {"RUNNING", "running", "Done", "error", "bogus", ""}

StatusItems ==
    {Str("running"), Str("bogus"), Str(""), Member("ERROR"), Member("INITIALIZING")}

StatusArgs ==
    {NoneArg} \cup {Str(v) : v \in StatusStrings}
    \cup {Member(n) : n \in JobStatusNames}
    \cup {List(l) : l \in UNION {[1..n -> StatusItems] : n \in 0..2}}

TagArgs == {NoneArg, List(<<>>), List(<<"a">>), List(<<"a", "b">>)}

Operators == {"OR", "AND", "or", "And", "XOR", "xor"}

FilterArgs ==
    [status : StatusArgs, job_tags : {NoneArg}, job_tags_operator : {"OR"}]
    \cup [status : {NoneArg}, job_tags : TagArgs, job_tags_operator : Operators]
    \cup [status : {Str("bogus"), Member("DONE"),
                    List(<<Member("ERROR"), Str("running")>>)},
          job_tags : {List(<<"a", "b">>)},
          job_tags_operator : {"AND", "or", "XOR"}]

\* The reconstruction loop of jobs() reads neither skip nor the date
\* arguments; their effect on the listing is explored by SpecGetJobs, and
\* Spec calls jobs() with their defaults.
JobsSkips == {0}

JobsDates == {None}

(***************************************************************************)
(* Initial states.                                                         *)
(***************************************************************************)
InitCall ==
    /\ passed = [filter |-> EmptyDict, shared |-> FALSE]
    /\ server_cap \in 1..MaxCap
    /\ pc = "idle"
    /\ caller = ""
    /\ api_filter = EmptyDict
    /\ initial_filter = EmptyDict
    /\ limit = None
    /\ skip = 0
    /\ descending = TRUE
    /\ current_page_limit = DefaultWindow
    /\ job_responses = <<>>
    /\ sent = <<>>
    /\ pages = <<>>
    /\ args = EmptyDict
    /\ listing = <<>>
    /\ idx = 1
    /\ job_list = <<>>
    /\ composite_ids = {}
    /\ error = ""
    /\ reply = EmptyDict
    /\ ret = NoJob
    /\ other = EmptyDict
    /\ merged = EmptyDict
    /\ history = <<>>

Init == store \in AllStores /\ InitCall

InitGetJobs == store \in PlainStores /\ InitCall

InitFilters == store \in FilterStores /\ InitCall

(***************************************************************************)
(* _get_jobs.                                                              *)
(***************************************************************************)
\* lines 313-315: entry of _get_jobs
EnterGetJobs(who, f, lim, sk, desc) ==
    /\ pc' = "get_jobs"
    /\ caller' = who
    /\ api_filter' = f
    /\ passed' = [filter |-> f, shared |-> TRUE]
    /\ initial_filter' = f
    /\ limit' = lim
    /\ skip' = sk
    /\ descending' = desc
    /\ current_page_limit' = IF Truthy(lim) THEN lim ELSE DefaultWindow
    /\ job_responses' = <<>>
    /\ sent' = <<>>
    /\ pages' = <<>>

\* a direct call _get_jobs(api_filter, limit, skip, descending)
GetJobs ==
    /\ pc = "idle"
    /\ \E f \in Filters, lim \in Limits, sk \in Skips, desc \in BOOLEAN :
          /\ EnterGetJobs("direct", f, lim, sk, desc)
          /\ args' = [api_filter |-> f, limit |-> lim, skip |-> sk,
                      descending |-> desc]
    /\ UNCHANGED <<merged, history, store, server_cap, listing, idx, job_list, composite_ids, error>>
    /\ UNCHANGED <<reply, ret, other>>

\* a page shorter than the page asked for taken as the last one
PageEndsWhenShort(job_page) == Len(job_page) < current_page_limit

\* line 326: if not job_page
PageEnds(job_page) == job_page = <<>>

\* the loop ended by an empty page only
StopsOnEmptyPage(lim, responses, job_page) == job_page = <<>>

\* lines 326-336: the loop ends after this page
Stops(lim, responses, job_page) ==
    \/ PageEnds(job_page)
    \/ Truthy(lim) /\ Len(responses \o job_page) >= lim

\* lines 330-336
NextPageLimit(lim, responses) ==
    IF Truthy(lim) THEN lim - Len(responses) ELSE DefaultWindow

\* the offset of the first request used again
NextSkipKept(sk) == sk

\* line 338: the offset of the next request
NextSkip(sk) == 0

\* the job put in front of the list
JobListInsert(list, job) == <<job>> \o list

\* lines 281 and 288: job_list.append(job)
JobListAppend(list, job) == Append(list, job)

\* _get_jobs returns responses to its caller
Return(responses) ==
    CASE caller = "direct" ->
            /\ pc' = "returned"
            /\ UNCHANGED <<listing, idx, job_list, error, ret>>
      [] caller = "jobs" ->
            /\ pc' = "restore"
            /\ listing' = responses
            /\ idx' = 1
            /\ UNCHANGED <<job_list, error, ret>>
      [] caller = "job" ->
            LET r == CompositeJob(CompositeJobId(listing[idx])[1], responses)
            IN  IF r.raised # ""
                THEN /\ pc' = "raised"
                     /\ error' = r.raised
                     /\ UNCHANGED <<listing, idx, job_list, ret>>
                ELSE /\ pc' = "restore"
                     /\ job_list' = JobListAppend(job_list, r.job)
                     /\ idx' = idx + 1
                     /\ UNCHANGED <<listing, error, ret>>
      [] caller = "job_direct" ->
            LET r == CompositeJob(args.job_id, responses)
            IN  /\ pc' = IF r.raised # "" THEN "raised" ELSE "done"
                /\ error' = r.raised
                /\ ret' = r.job
                /\ UNCHANGED <<listing, idx, job_list>>

\* line 340 left out: the local keeps naming the mapping it named
RebindSkipped(initial) == [filter |-> api_filter, shared |-> passed.shared]

\* line 340: api_filter = copy.deepcopy(initial_filter); the local names a
\* new mapping from here on
Rebind(initial) == [filter |-> initial, shared |-> FALSE]

\* lines 316-366: one iteration of the while loop, the server answering job_page
Round(job_page) ==
    LET responses == job_responses \o job_page
    IN  /\ sent' = Append(sent, [limit |-> current_page_limit, skip |-> skip,
                                 descending |-> descending,
                                 extra_filter |-> api_filter])
        /\ pages' = Append(pages, job_page)
        /\ job_responses' = responses
        /\ IF Stops(limit, job_responses, job_page)
           THEN /\ Return(responses)
                /\ UNCHANGED <<api_filter, passed, skip, current_page_limit>>
           ELSE /\ current_page_limit' = NextPageLimit(limit, responses)
                /\ skip' = NextSkip(skip)
                /\ LET copied == Rebind(initial_filter)
                       next == NextFilter(copied.filter,
                                          job_page[Len(job_page)], descending)
                   IN  /\ api_filter' = next
                       \* lines 341-365 change the mapping api_filter names
                       /\ passed' = [filter |-> IF copied.shared THEN next
                                                ELSE passed.filter,
                                     shared |-> copied.shared]
                /\ UNCHANGED <<pc, listing, idx, job_list, error, ret>>

\* lines 316-366: one iteration of the while loop
GetJobsRound ==
    /\ pc = "get_jobs"
    /\ Len(sent) < MaxRequests
    /\ \E bare \in BareOutcomes(api_filter) :
          Round(ListJobs(api_filter, current_page_limit, skip, descending, bare))
    /\ UNCHANGED <<merged, history, store, server_cap, caller, initial_filter, limit, descending,
                   args, composite_ids, reply, other>>

(***************************************************************************)
(* _get_jobs with a limit against a server that answers a request with any *)
(* page of its records: records already returned, out of order, or more    *)
(* than were asked for.                                                    *)
(***************************************************************************)
MaxPage == 2

AnyPages == UNION {[1..n -> Range(store)] : n \in 0..MaxPage}

GetJobsLimited ==
    /\ pc = "idle"
    /\ \E lim \in 1..MaxLimit, sk \in Skips, desc \in BOOLEAN :
          /\ EnterGetJobs("direct", EmptyDict, lim, sk, desc)
          /\ args' = [api_filter |-> EmptyDict, limit |-> lim, skip |-> sk,
                      descending |-> desc]
    /\ UNCHANGED <<merged, history, store, server_cap, listing, idx, job_list,
                   composite_ids, error>>
    /\ UNCHANGED <<reply, ret, other>>

GetJobsRoundAny ==
    /\ pc = "get_jobs"
    /\ Len(sent) < MaxRequests
    /\ \E job_page \in AnyPages : Round(job_page)
    /\ UNCHANGED <<merged, history, store, server_cap, caller, initial_filter, limit, descending,
                   args, composite_ids, reply, other>>

NextAnyServer == GetJobsLimited \/ GetJobsRoundAny

SpecAnyServer == InitGetJobs /\ [][NextAnyServer]_vars

(***************************************************************************)
(* jobs().                                                                 *)
(***************************************************************************)
\* lines 232-267 with the first request sent before the arguments are checked
JobsCallRequestFirst(a) ==
    LET built == BuildJobsFilter(a.status, a.start_datetime, a.end_datetime,
                                 a.job_tags, a.job_tags_operator)
    IN  /\ args' = a
        /\ IF built.raised # ""
           THEN /\ pc' = "raised"
                /\ caller' = "jobs"
                /\ error' = built.raised
                /\ ret' = [named |-> built.named]
                /\ sent' = <<[limit |-> DefaultWindow, skip |-> a.skip,
                              descending |-> a.descending,
                              extra_filter |-> EmptyDict]>>
                /\ UNCHANGED <<passed, api_filter, initial_filter, limit, skip, descending,
                               current_page_limit, job_responses, pages>>
           ELSE /\ EnterGetJobs("jobs", built.filter, a.limit, a.skip, a.descending)
                /\ UNCHANGED <<error, ret>>

\* lines 232-267: build the filter, or raise, and call _get_jobs
JobsCall(a) ==
    LET built == BuildJobsFilter(a.status, a.start_datetime, a.end_datetime,
                                 a.job_tags, a.job_tags_operator)
    IN  /\ args' = a
        /\ IF built.raised # ""
           THEN /\ pc' = "raised"
                /\ caller' = "jobs"
                /\ error' = built.raised
                /\ ret' = [named |-> built.named]
                /\ UNCHANGED <<passed, api_filter, initial_filter, limit, skip, descending,
                               current_page_limit, job_responses, sent, pages>>
           ELSE /\ EnterGetJobs("jobs", built.filter, a.limit, a.skip, a.descending)
                /\ UNCHANGED <<error, ret>>

\* jobs() without status and job_tags
Jobs ==
    /\ pc = "idle"
    /\ \E lim \in Limits, sk \in JobsSkips, start \in JobsDates, end \in JobsDates,
          desc \in BOOLEAN, ignore \in BOOLEAN :
          JobsCall([limit |-> lim, skip |-> sk, descending |-> desc,
                    start_datetime |-> start, end_datetime |-> end,
                    ignore_composite_jobs |-> ignore, status |-> NoneArg,
                    job_tags |-> NoneArg, job_tags_operator |-> "OR"])
    /\ UNCHANGED <<merged, history, store, server_cap, listing, idx, job_list, composite_ids>>
    /\ UNCHANGED <<reply, other>>

\* jobs() with status, job_tags and job_tags_operator
JobsFiltered ==
    /\ pc = "idle"
    /\ \E lim \in Limits, desc \in BOOLEAN, f \in FilterArgs :
          JobsCall([limit |-> lim, skip |-> 0, descending |-> desc,
                    start_datetime |-> None, end_datetime |-> None,
                    ignore_composite_jobs |-> FALSE, status |-> f.status,
                    job_tags |-> f.job_tags,
                    job_tags_operator |-> f.job_tags_operator])
    /\ UNCHANGED <<merged, history, store, server_cap, listing, idx, job_list, composite_ids>>
    /\ UNCHANGED <<reply, other>>

\* lines 270-289: one iteration of the for loop
RestoreStep ==
    /\ pc = "restore"
    /\ idx <= Len(listing)
    /\ LET job_info == listing[idx]
           ignore == args.ignore_composite_jobs
       IN  IF StartsComposite(job_info, composite_ids, ignore)
           THEN \* line 280: job(composite_job_id[0]), lines 561-564
                /\ composite_ids' = composite_ids \cup {CompositeJobId(job_info)[1]}
                /\ EnterGetJobs("job",
                                [experimentTag |-> CompositeJobId(job_info)[1]],
                                None, 0, TRUE)
                /\ UNCHANGED <<idx, job_list>>
           ELSE IF SkipsComposite(job_info, composite_ids, ignore)
           THEN /\ idx' = idx + 1
                /\ UNCHANGED <<passed, pc, caller, api_filter, initial_filter, limit, skip,
                               descending, current_page_limit, job_responses,
                               sent, pages, job_list, composite_ids>>
           ELSE LET r == RestoreCircuitJob(job_info, FALSE)
                IN  /\ job_list' = IF r.job = NoJob THEN job_list
                                   ELSE JobListAppend(job_list, r.job)
                    /\ idx' = idx + 1
                    /\ UNCHANGED <<passed, pc, caller, api_filter, initial_filter, limit,
                                   skip, descending, current_page_limit,
                                   job_responses, sent, pages, composite_ids>>
    /\ UNCHANGED <<merged, history, store, server_cap, args, listing, error, reply, ret, other>>

\* line 290
JobsReturn ==
    /\ pc = "restore"
    /\ idx > Len(listing)
    /\ pc' = "done"
    /\ UNCHANGED <<passed, merged, history, store, server_cap, caller, api_filter, initial_filter, limit,
                   skip, descending, current_page_limit, job_responses, sent,
                   pages, args, listing, idx, job_list, composite_ids, error,
                   reply, ret, other>>

(***************************************************************************)
(* job().                                                                  *)
(***************************************************************************)
\* What job_get(job_id) can answer: the record with that id, ApiError with
\* "Error code: 3250." when the server has no such job, or another ApiError.
JobGetReplies(job_id) ==
    {[kind |-> "ApiError", not_found |-> FALSE]}
    \cup (IF job_id \in DOMAIN store
          THEN {[kind |-> "record", job_info |-> store[job_id]]}
          ELSE {[kind |-> "ApiError", not_found |-> TRUE]})

\* the wrapping of a found malformed record replaced by a None result
PlainJobNoRaise(answer) ==
    IF answer.kind = "ApiError"
    THEN [job |-> NoJob,
          raised |-> IF answer.not_found THEN "IBMJobNotFoundError"
                     ELSE "IBMBackendApiError"]
    ELSE RestoreCircuitJob(answer.job_info, FALSE)

\* lines 575-584: job() for an id without the composite prefix
PlainJob(answer) ==
    IF answer.kind = "ApiError"
    THEN [job |-> NoJob,
          raised |-> IF answer.not_found THEN "IBMJobNotFoundError"
                     ELSE "IBMBackendApiError"]
    ELSE RestoreCircuitJob(answer.job_info, TRUE)

CompositeIdArgs == CompositeTags \cup {UnusedCompositeId}

PlainIdArgs == 1..(MaxJobs + 1)

\* lines 561-584: a call job(job_id)
Job ==
    /\ pc = "idle"
    /\ \/ \E job_id \in CompositeIdArgs :
             /\ StartsWithCompositePrefix(job_id)
             /\ EnterGetJobs("job_direct", [experimentTag |-> job_id], None, 0, TRUE)
             /\ args' = [job_id |-> job_id]
             /\ UNCHANGED <<error, reply, ret>>
       \/ \E job_id \in PlainIdArgs : \E answer \in JobGetReplies(job_id) :
             /\ args' = [job_id |-> job_id]
             /\ reply' = answer
             /\ ret' = PlainJob(answer).job
             /\ error' = PlainJob(answer).raised
             /\ pc' = IF PlainJob(answer).raised # "" THEN "raised" ELSE "done"
             /\ caller' = "job_direct"
             /\ UNCHANGED <<passed, api_filter, initial_filter, limit, skip, descending,
                            current_page_limit, job_responses, sent, pages>>
    /\ UNCHANGED <<merged, history, store, server_cap, listing, idx, job_list, composite_ids, other>>

Next == Jobs \/ GetJobsRound \/ RestoreStep \/ JobsReturn

Spec == Init /\ [][Next]_vars

NextGetJobs == GetJobs \/ GetJobsRound

SpecGetJobs == InitGetJobs /\ [][NextGetJobs]_vars

NextJob == Job \/ GetJobsRound

(***************************************************************************)
(* _merge_logical_filters called on its own, several times in a row on the *)
(* same cur_filter.  As at its call sites (lines 353-356, 362-365), the new *)
(* filter is a freshly built dict, so no list is shared between the two.    *)
(***************************************************************************)
SubFilterA == [id |-> [nin |-> <<1>>]]

SubFilterB == [creationDate |-> [lte |-> 1]]

SubFilterC == [lte |-> 2]

MergeFilters ==
    {EmptyDict,
     [and |-> <<SubFilterA>>],
     [and |-> <<SubFilterB>>],
     [or |-> <<SubFilterC>>],
     [and |-> <<SubFilterA>>, or |-> <<SubFilterB>>],
     [creationDate |-> [gte |-> 1]],
     [and |-> <<SubFilterB, SubFilterC>>, id |-> [nin |-> <<2>>]]}

MergeCall ==
    /\ pc = "idle"
    /\ Len(history) < MaxMerges
    /\ \E new_filter \in MergeFilters :
       \E cur_filter \in (IF history = <<>> THEN MergeFilters ELSE {merged}) :
          /\ merged' = MergeLogicalFilters(cur_filter, new_filter)
          /\ history' = Append(history, [cur_filter |-> cur_filter,
                                         new_filter |-> new_filter])
    /\ UNCHANGED <<passed, store, server_cap, pc, caller, api_filter, initial_filter, limit,
                   skip, descending, current_page_limit, job_responses, sent,
                   pages, args, listing, idx, job_list, composite_ids, error,
                   reply, ret, other>>

InitMerge == store = <<>> /\ InitCall

NextMerge == MergeCall

SpecMerge == InitMerge /\ [][NextMerge]_vars

(***************************************************************************)
(* _update_creation_date_filter called on its own.                         *)
(***************************************************************************)
\* a between entry: absent (written << >>) or [lower, upper]
Betweens == {<<>>} \cup {<<x, y>> : x \in Dates, y \in Dates}

DateFilterOf(gt, gte, lt, lte, between) ==
    LET keys == {k \in DateOps :
                    CASE k = "gt" -> gt # None
                      [] k = "gte" -> gte # None
                      [] k = "lt" -> lt # None
                      [] k = "lte" -> lte # None
                      [] k = "between" -> between # <<>>}
    IN  [k \in keys |->
            CASE k = "gt" -> gt
              [] k = "gte" -> gte
              [] k = "lt" -> lt
              [] k = "lte" -> lte
              [] k = "between" -> between]

CurDateFilters ==
    {DateFilterOf(gt, gte, lt, lte, between) :
        gt \in OptDates, gte \in OptDates, lt \in OptDates, lte \in OptDates,
        between \in Betweens}

UpdateCreationDateFilterCall ==
    /\ pc = "idle"
    /\ \E cur_dt_filter \in CurDateFilters, gte_dt \in OptDates, lte_dt \in OptDates :
          /\ args' = [cur_dt_filter |-> cur_dt_filter, gte_dt |-> gte_dt,
                      lte_dt |-> lte_dt]
          /\ ret' = UpdateCreationDateFilter(cur_dt_filter, gte_dt, lte_dt)
    /\ pc' = "done"
    /\ caller' = "_update_creation_date_filter"
    /\ UNCHANGED <<passed, merged, history, store, server_cap, api_filter, initial_filter,
                   limit, skip, descending, current_page_limit, job_responses,
                   sent, pages, listing, idx, job_list, composite_ids, error,
                   reply, other>>

InitUpdate == store = <<>> /\ InitCall

NextUpdate == UpdateCreationDateFilterCall

SpecUpdate == InitUpdate /\ [][NextUpdate]_vars

(***************************************************************************)
(* _restore_circuit_job called on its own.                                 *)
(***************************************************************************)
\* records with their _backend_info
RecordsWithBackend ==
    [job_id : 1..MaxJobs, creation_date : Dates, status : {"COMPLETED"},
     backend_name : {"ibmq_qasm_simulator", "ibmq_retired"},
     tags : TagChoices, malformed : BOOLEAN]

\* records without _backend_info
RecordsWithoutBackend ==
    [job_id : 1..MaxJobs, creation_date : Dates, status : {"COMPLETED"},
     tags : TagChoices, malformed : BOOLEAN]

RestoreCircuitJobCall ==
    /\ pc = "idle"
    /\ \E job_info \in RecordsWithBackend \cup RecordsWithoutBackend,
          raise_error \in BOOLEAN :
          LET r == RestoreCircuitJob(job_info, raise_error)
          IN  /\ args' = [job_info |-> job_info, raise_error |-> raise_error]
              /\ error' = r.raised
              /\ reply' = r.message
              /\ ret' = r.job
              /\ pc' = IF r.raised # "" THEN "raised" ELSE "done"
    /\ caller' = "_restore_circuit_job"
    /\ UNCHANGED <<passed, merged, history, store, server_cap, api_filter, initial_filter,
                   limit, skip, descending, current_page_limit, job_responses,
                   sent, pages, listing, idx, job_list, composite_ids, other>>

InitRestore == store = <<>> /\ InitCall

NextRestore == RestoreCircuitJobCall

SpecRestore == InitRestore /\ [][NextRestore]_vars

(***************************************************************************)
(* Failures of the transport under list_jobs_statuses and job_get.  An     *)
(* exception raised by the client is an ApiError or it is not; the text of *)
(* a transport failure does not hold "Error code: 3250.".                  *)
(***************************************************************************)
TransportFailures ==
    {[class |-> "RequestsApiError", is_api_error |-> TRUE],
     [class |-> "ConnectionError", is_api_error |-> FALSE]}

Failure(ex, during) ==
    [kind |-> "failure", class |-> ex.class, is_api_error |-> ex.is_api_error,
     during |-> during]

\* lines 317-322: list_jobs_statuses raises inside _get_jobs, which has no
\* handler, as have job() (line 562) and jobs() (lines 265, 280) around it
RequestFails ==
    /\ pc = "get_jobs"
    /\ Len(sent) < MaxRequests
    /\ \E ex \in TransportFailures :
          /\ reply' = Failure(ex, "list_jobs_statuses")
          /\ error' = ex.class
    /\ sent' = Append(sent, [limit |-> current_page_limit, skip |-> skip,
                             descending |-> descending,
                             extra_filter |-> api_filter])
    /\ pc' = "raised"
    /\ UNCHANGED <<passed, merged, history, store, server_cap, caller, api_filter,
                   initial_filter, limit, skip, descending, current_page_limit,
                   job_responses, pages, args, listing, idx, job_list,
                   composite_ids, ret, other>>

\* lines 575-582 with no handler around job_get
JobGetFailurePropagates(ex) == ex.class

\* lines 575-582: what job() raises when job_get raises ex
JobGetFailure(ex) ==
    IF ex.is_api_error THEN "IBMBackendApiError" ELSE ex.class

\* lines 575-582: job() for an id without the composite prefix, job_get failing
JobGetFails ==
    /\ pc = "idle"
    /\ \E job_id \in PlainIdArgs, ex \in TransportFailures :
          /\ args' = [job_id |-> job_id]
          /\ reply' = Failure(ex, "job_get")
          /\ error' = JobGetFailure(ex)
    /\ pc' = "raised"
    /\ caller' = "job_direct"
    /\ UNCHANGED <<passed, merged, history, store, server_cap, api_filter, initial_filter,
                   limit, skip, descending, current_page_limit, job_responses,
                   sent, pages, listing, idx, job_list, composite_ids, ret,
                   other>>

NextTransport ==
    Jobs \/ Job \/ GetJobsRound \/ RestoreStep \/ JobsReturn \/ RequestFails
    \/ JobGetFails

SpecTransport == Init /\ [][NextTransport]_vars

NextFilters == JobsFiltered \/ GetJobsRound \/ RestoreStep \/ JobsReturn

SpecFilters == InitFilters /\ [][NextFilters]_vars

(***************************************************************************)
(* A second jobs(ignore_composite_jobs=True) call running concurrently on  *)
(* the same service.  Its locals are the fields of other; one step is one  *)
(* remote request with the local work that follows it.                     *)
(***************************************************************************)
\* jobs(), lines 270-289 with ignore_composite_jobs=True, the whole loop
RECURSIVE RestoreListing(_)
RestoreListing(responses) ==
    IF responses = <<>> THEN <<>>
    ELSE LET r == RestoreCircuitJob(Head(responses), FALSE)
         IN  (IF r.job = NoJob THEN <<>> ELSE <<r.job>>)
                 \o RestoreListing(Tail(responses))

Started(frame) == DOMAIN frame # {}

\* the second call sending the filter of the first one
OtherFilterShared == api_filter

\* line 321: the filter the second call sends is its own local
OtherFilter == other.api_filter

OtherJobs ==
    /\ ~Started(other)
    /\ \E lim \in Limits, desc \in BOOLEAN :
          other' = [pc |-> "get_jobs",
                    api_filter |-> BuildFilter(None, None),
                    initial_filter |-> BuildFilter(None, None),
                    limit |-> lim, skip |-> 0, descending |-> desc,
                    current_page_limit |-> IF Truthy(lim) THEN lim ELSE DefaultWindow,
                    job_responses |-> <<>>, requests |-> 0,
                    first_at |-> None, last_at |-> None, job_list |-> <<>>]
    /\ UNCHANGED <<passed, merged, history, store, server_cap, pc, caller, api_filter, initial_filter, limit,
                   skip, descending, current_page_limit, job_responses, sent,
                   pages, args, listing, idx, job_list, composite_ids, error,
                   reply, ret>>

OtherRound ==
    /\ Started(other)
    /\ other.pc = "get_jobs"
    /\ other.requests < MaxRequests
    /\ \E bare \in BareOutcomes(OtherFilter) :
          LET job_page == ListJobs(OtherFilter, other.current_page_limit,
                                   other.skip, other.descending, bare)
              responses == other.job_responses \o job_page
              counted == [other EXCEPT
                             !.requests = @ + 1,
                             !.first_at = IF @ = None THEN Len(sent) ELSE @,
                             !.last_at = Len(sent),
                             !.job_responses = responses]
          IN  IF Stops(other.limit, other.job_responses, job_page)
              THEN other' = [counted EXCEPT !.pc = "done",
                                            !.job_list = RestoreListing(responses)]
              ELSE other' = [counted EXCEPT
                                !.current_page_limit =
                                    NextPageLimit(other.limit, responses),
                                !.skip = 0,
                                !.api_filter =
                                    NextFilter(other.initial_filter,
                                               job_page[Len(job_page)],
                                               other.descending)]
    /\ UNCHANGED <<passed, merged, history, store, server_cap, pc, caller, api_filter, initial_filter, limit,
                   skip, descending, current_page_limit, job_responses, sent,
                   pages, args, listing, idx, job_list, composite_ids, error,
                   reply, ret>>

NextConcurrent == Next \/ OtherJobs \/ OtherRound

SpecConcurrent == InitGetJobs /\ [][NextConcurrent]_vars

SpecJob == Init /\ [][NextJob]_vars

(***************************************************************************)
(* Reading the requests and pages of the running _get_jobs call.           *)
(***************************************************************************)
LastOf(page) == page[Len(page)]

\* the ids a filter excludes through id not-in conditions
RECURSIVE ExcludedIds(_)
ExcludedIds(f) ==
    UNION {CASE k = "id" -> Range(f[k]["nin"])
             [] k = "and" -> UNION {ExcludedIds(f[k][i]) : i \in DOMAIN f[k]}
             [] OTHER -> {} : k \in DOMAIN f}

\* the creationDate conditions of a filter, top level and under and
CreationDateConds(f) ==
    (IF Has(f, "creationDate") THEN {f["creationDate"]} ELSE {})
    \cup (IF Has(f, "and")
          THEN {f["and"][i]["creationDate"] :
                   i \in {j \in DOMAIN f["and"] : Has(f["and"][j], "creationDate")}}
          ELSE {})

UpperOf(dt_filter) ==
    IF Has(dt_filter, "lte") THEN dt_filter["lte"]
    ELSE IF Has(dt_filter, "lt") THEN dt_filter["lt"]
    ELSE IF Has(dt_filter, "between") THEN dt_filter["between"][2]
    ELSE None

LowerOf(dt_filter) ==
    IF Has(dt_filter, "gte") THEN dt_filter["gte"]
    ELSE IF Has(dt_filter, "gt") THEN dt_filter["gt"]
    ELSE IF Has(dt_filter, "between") THEN dt_filter["between"][1]
    ELSE None

\* tightest bounds of a filter's creationDate conditions, None if unbounded
UpperBound(f) ==
    LET S == {UpperOf(c) : c \in CreationDateConds(f)} \ {None}
    IN  IF S = {} THEN None ELSE CHOOSE x \in S : \A y \in S : x <= y

LowerBound(f) ==
    LET S == {LowerOf(c) : c \in CreationDateConds(f)} \ {None}
    IN  IF S = {} THEN None ELSE CHOOSE x \in S : \A y \in S : y <= x

\* a <= b for upper bounds (None is no bound) and for lower bounds
UpperLeq(a, b) == b = None \/ (a # None /\ a <= b)

LowerLeq(a, b) == a = None \/ (b # None /\ a <= b)

\* no request of the call carried a bare condition
NoBareSent == \A k \in DOMAIN sent : ~HasBare(sent[k].extra_filter)

RECURSIVE Received(_)
Received(k) == IF k = 0 THEN 0 ELSE Received(k - 1) + Len(pages[k])

\* what one uncapped query with the call's filter, order, skip and limit returns
Reference ==
    LET q == Query(initial_filter, args.skip, descending, TRUE)
    IN  IF limit = None THEN q ELSE Take(q, limit)

Ceil(n, c) == (n + c - 1) \div c

(***************************************************************************)
(* C1: within one listing call no record id appears more than once in the  *)
(* accumulated result.                                                     *)
(***************************************************************************)
C1_NoDuplicateIds ==
    \A i, j \in DOMAIN job_responses :
        i # j => job_responses[i].job_id # job_responses[j].job_id

(***************************************************************************)
(* C2: a listing with limit=None terminates.  The store does not change    *)
(* during a call and a request without bare conditions has one answer, so  *)
(* the loop state after a round is the next request; a terminating listing *)
(* therefore never issues the same request twice.                          *)
(***************************************************************************)
C2_UnboundedListingTerminates ==
    (limit = None /\ NoBareSent)
        => \A i, j \in DOMAIN sent : i < j => sent[i] # sent[j]

(***************************************************************************)
(* C3: for limit None or n >= 1 the sequence _get_jobs returns equals what *)
(* one uncapped query with the same filter, order, skip and limit returns  *)
(* (stated for calls all of whose requests have a defined meaning).        *)
(***************************************************************************)
C3_EqualsSingleQuery ==
    (pc = "returned" /\ (limit = None \/ limit >= 1) /\ NoBareSent)
        => job_responses = Reference

(***************************************************************************)
(* C4: with limit=None, N matching records and effective page size c, the  *)
(* listing returns exactly N records over Ceil(N, c) non-empty rounds and   *)
(* ends at the first empty page (stated for calls all of whose requests    *)
(* have a defined meaning).                                                *)
(***************************************************************************)
C4_ExactlyNOverCeilRounds ==
    (pc = "returned" /\ limit = None /\ args.skip = 0 /\ NoBareSent)
        => LET N == Len(Query(initial_filter, 0, descending, TRUE))
               c == Smaller(DefaultWindow, server_cap)
           IN  /\ Len(job_responses) = N
               /\ Len(pages) = Ceil(N, c) + 1
               /\ \A k \in DOMAIN pages : (pages[k] = <<>>) <=> (k = Len(pages))

(***************************************************************************)
(* C5: for every integer limit n >= 0 the listing holds at most n records, *)
(* and no request is issued once n records are accumulated.                *)
(***************************************************************************)
C5_LimitBoundsResult ==
    limit # None
        => /\ Len(job_responses) <= limit
           /\ \A k \in DOMAIN sent : Received(k - 1) < limit

(***************************************************************************)
(* C6: the filter of round k+1 excludes the id of the last record of every *)
(* earlier page 1..k of the call.                                          *)
(***************************************************************************)
C6_ExclusionIsCumulative ==
    \A k \in DOMAIN sent : \A j \in 1..(k - 1) :
        LastOf(pages[j]).job_id \in ExcludedIds(sent[k].extra_filter)

(***************************************************************************)
(* C7: after a round that does not end the listing, the creationDate       *)
(* condition of the next request has the creation date of the page's last  *)
(* record as upper bound when descending, as lower bound when ascending.   *)
(***************************************************************************)
C7_WatermarkIsNextBound ==
    \A k \in 1..(Len(sent) - 1) :
        LET t == LastOf(pages[k]).creation_date
            conds == CreationDateConds(sent[k + 1].extra_filter)
        IN  /\ conds # {}
            /\ \A c \in conds :
                  IF sent[k + 1].descending THEN UpperOf(c) = t ELSE LowerOf(c) = t

C7_Witness ==
    /\ Len(sent) >= 3
    /\ ~descending
    /\ Has(initial_filter, "creationDate")
    /\ LastOf(pages[1]).creation_date # LastOf(pages[2]).creation_date

(***************************************************************************)
(* C8: across the rounds of one call the upper bound sent is non-increasing *)
(* when descending and the lower bound sent is non-decreasing when         *)
(* ascending.                                                              *)
(***************************************************************************)
C8_WindowOnlyTightens ==
    \A k \in 1..(Len(sent) - 1) :
        IF descending
        THEN UpperLeq(UpperBound(sent[k + 1].extra_filter),
                      UpperBound(sent[k].extra_filter))
        ELSE LowerLeq(LowerBound(sent[k].extra_filter),
                      LowerBound(sent[k + 1].extra_filter))

C8_Witness ==
    /\ Len(sent) >= 3
    /\ descending
    /\ UpperBound(sent[1].extra_filter) # None
    /\ UpperBound(sent[3].extra_filter) < UpperBound(sent[2].extra_filter)

(***************************************************************************)
(* C9: a record that cannot be reconstructed never makes jobs() fail.      *)
(***************************************************************************)
C9_BadRecordNeverAborts == pc # "raised"

(***************************************************************************)
(* C10: with ignore_composite_jobs=False the records carrying one          *)
(* composite id produce exactly one entry of the output, a composite job,  *)
(* and none of them produces an entry of its own.                          *)
(***************************************************************************)
Carriers(c) == {i \in DOMAIN listing : c \in Range(listing[i].tags)}

CompositeEntries(c) ==
    {i \in DOMAIN job_list : job_list[i].kind = "composite" /\ job_list[i].job_id = c}

C10_OneEntryPerCompositeId ==
    (pc = "done" /\ ~args.ignore_composite_jobs)
        => /\ \A c \in CompositeTags :
                 Carriers(c) # {} => Cardinality(CompositeEntries(c)) = 1
           /\ \A i \in DOMAIN job_list :
                 job_list[i].kind = "circuit"
                     => CompositeJobId(store[job_list[i].job_id]) = <<>>

C10_Witness ==
    /\ pc = "done"
    /\ ~args.ignore_composite_jobs
    /\ \E c \in CompositeTags :
          Cardinality(Carriers(c)) >= 2 /\ Cardinality(CompositeEntries(c)) = 1

(***************************************************************************)
(* C11: retrieving a composite id whose sub-job listing holds no valid     *)
(* sub-job (it is empty, or every record of it is malformed) fails with    *)
(* IBMJobNotFoundError.                                                    *)
(***************************************************************************)
CompositeCallEnded ==
    /\ caller = "job_direct"
    /\ pc \in {"done", "raised"}
    /\ DOMAIN reply = {}

C11_NoValidSubJobIsNotFound ==
    (CompositeCallEnded /\ \A i \in DOMAIN job_responses : job_responses[i].malformed)
        => pc = "raised" /\ error = "IBMJobNotFoundError"

(***************************************************************************)
(* C12: job(job_id) for a non-composite id ends in exactly one of: the job *)
(* is returned; IBMJobNotFoundError when the server reports the job        *)
(* absent; IBMBackendApiProtocolError when the payload is invalid.  It     *)
(* never returns None.                                                     *)
(***************************************************************************)
PlainCallEnded ==
    /\ caller = "job_direct"
    /\ pc \in {"done", "raised"}
    /\ DOMAIN reply # {}

Absent == reply.kind = "ApiError" /\ reply.not_found

Failed == reply.kind = "ApiError" /\ ~reply.not_found

Invalid == reply.kind = "record" /\ reply.job_info.malformed

Valid == reply.kind = "record" /\ ~reply.job_info.malformed

JobReturned ==
    pc = "done" /\ error = "" /\ ret # NoJob /\ ret.job_id = args.job_id

JobRaised(name) == pc = "raised" /\ error = name /\ ret = NoJob

C12_ThreeOutcomes ==
    PlainCallEnded
        => /\ JobReturned \/ JobRaised("IBMJobNotFoundError")
                          \/ JobRaised("IBMBackendApiProtocolError")
           /\ JobRaised("IBMJobNotFoundError") <=> Absent
           /\ JobRaised("IBMBackendApiProtocolError") <=> Invalid
           /\ pc = "done" => ret # NoJob

(***************************************************************************)
(* C12 as amended: job(job_id) for a non-composite id ends in exactly one  *)
(* of four ways: the job is returned (well-formed record);                 *)
(* IBMJobNotFoundError (the server reports error code 3250);               *)
(* IBMBackendApiError (job_get fails with any other ApiError);             *)
(* IBMBackendApiProtocolError (malformed record).  It never returns None.  *)
(***************************************************************************)
C12_FourOutcomes ==
    PlainCallEnded
        => /\ JobReturned <=> Valid
           /\ JobRaised("IBMJobNotFoundError") <=> Absent
           /\ JobRaised("IBMBackendApiError") <=> Failed
           /\ JobRaised("IBMBackendApiProtocolError") <=> Invalid
           /\ pc = "done" => ret # NoJob

C12_Witness == PlainCallEnded /\ Invalid /\ JobRaised("IBMBackendApiProtocolError")

(***************************************************************************)
(* C13: when two jobs() calls on one service are interleaved at the        *)
(* granularity of remote requests, each returns what it returns when run   *)
(* alone.                                                                  *)
(***************************************************************************)
\* _get_jobs run without interruption, for at most fuel requests
RECURSIVE ListingAlone(_, _, _, _, _, _, _, _)
ListingAlone(f, initial, lim, page_limit, sk, desc, responses, fuel) ==
    IF fuel = 0 THEN [ended |-> FALSE, responses |-> responses]
    ELSE LET job_page == ListJobs(f, page_limit, sk, desc, TRUE)
             r == responses \o job_page
         IN  IF Stops(lim, responses, job_page)
             THEN [ended |-> TRUE, responses |-> r]
             ELSE ListingAlone(NextFilter(initial, LastOf(job_page), desc), initial,
                               lim, NextPageLimit(lim, r), 0, desc, r, fuel - 1)

JobsAlone(lim, desc) ==
    LET f == BuildFilter(None, None)
        l == ListingAlone(f, f, lim, IF Truthy(lim) THEN lim ELSE DefaultWindow,
                          0, desc, <<>>, MaxRequests)
    IN  [ended |-> l.ended, job_list |-> RestoreListing(l.responses)]

C13_ConcurrentCallsIndependent ==
    /\ (Started(other) /\ pc = "done")
          => /\ JobsAlone(args.limit, args.descending).ended
             /\ job_list = JobsAlone(args.limit, args.descending).job_list
    /\ (Started(other) /\ other.pc = "done")
          => /\ JobsAlone(other.limit, other.descending).ended
             /\ other.job_list = JobsAlone(other.limit, other.descending).job_list

C13_Witness ==
    /\ pc = "done"
    /\ Started(other)
    /\ other.pc = "done"
    /\ other.requests >= 2
    /\ other.first_at >= 1
    /\ other.last_at > other.first_at
    /\ other.last_at < Len(sent)
    /\ other.job_list # job_list

(***************************************************************************)
(* Claims about the status and tag arguments of jobs().                    *)
(***************************************************************************)
\* a jobs() call has been made
JobsCalled == caller = "jobs" /\ pc # "idle"

ValueErrorRaised == error = "IBMBackendValueError"

NameOf(item) == IF item.type = "str" THEN Upper[item.value] ELSE item.name

Recognized(item) == NameOf(item) \in JobStatusNames

StatusGiven == ArgTruthy(args.status)

StatusRecognized ==
    IF args.status.type = "list"
    THEN \A i \in DOMAIN args.status.items : Recognized(args.status.items[i])
    ELSE args.status.type # "NoneType" /\ Recognized(args.status)

\* a string among the status values that matches no abstract status
UnmatchedString ==
    IF args.status.type = "list"
    THEN \E i \in DOMAIN args.status.items :
            /\ args.status.items[i].type = "str"
            /\ ~Recognized(args.status.items[i])
    ELSE args.status.type = "str" /\ ~Recognized(args.status)

TagsGiven == ArgTruthy(args.job_tags)

\* C14: when jobs() fails with IBMBackendValueError (bad status, bad tag
\* operator), no request has been sent, and none is sent afterwards: the
\* call has ended.
C14_ValueErrorBeforeAnyRequest ==
    ValueErrorRaised => sent = <<>> /\ pc = "raised" /\ job_responses = <<>>

C14_Witness ==
    /\ JobsCalled /\ ValueErrorRaised
    /\ TagsGiven /\ args.job_tags_operator = "XOR"
    /\ args.status = Member("DONE")

C16_UnmatchedStatusStringRejected ==
    JobsCalled /\ args.job_tags = NoneArg =>
        /\ UnmatchedString => ValueErrorRaised
        /\ args.status.type # "NoneType" /\ StatusRecognized => ~ValueErrorRaised

\* the status conditions as the table of the claim gives them
ClaimedCondition(name) ==
    CASE name = "INITIALIZING" -> [inq |-> <<"CREATING", "CREATED">>]
      [] name = "VALIDATING" -> [inq |-> <<"VALIDATING", "VALIDATED">>]
      [] name \in {"RUNNING", "QUEUED", "CANCELLED"} -> [eq |-> name]
      [] name = "DONE" -> [eq |-> "COMPLETED"]
      [] name = "ERROR" -> [regexp |-> "^ERROR"]

\* C17: every abstract status maps to its condition on the status field:
\* INITIALIZING to inq {CREATING, CREATED}, VALIDATING to inq {VALIDATING,
\* VALIDATED}, RUNNING, QUEUED and CANCELLED to equality with the code of the
\* same name, DONE to equality with COMPLETED, ERROR to the regular
\* expression ^ERROR; a list maps to {or: [one condition per status, in
\* list order]}.
C17_StatusTable ==
    JobsCalled /\ StatusGiven /\ ~ValueErrorRaised =>
        IF args.status.type = "list"
        THEN /\ initial_filter["or"] =
                    [i \in DOMAIN args.status.items |->
                        [status |-> ClaimedCondition(NameOf(args.status.items[i]))]]
             /\ ~Has(initial_filter, "status")
        ELSE /\ initial_filter["status"] = ClaimedCondition(NameOf(args.status))
             /\ ~Has(initial_filter, "or")

C17_Witness ==
    /\ JobsCalled /\ ~ValueErrorRaised
    /\ args.status = Str("Done")
    /\ pc = "done"
    /\ Len(job_list) > 0

(***************************************************************************)
(* Claims about _merge_logical_filters.                                    *)
(***************************************************************************)
LogicalOperators == {"or", "and"}

LastCall == history[Len(history)]

ListOf(f, key) == IF Has(f, key) THEN f[key] ELSE <<>>

\* the number of times x occurs in the sequence s
Occurrences(s, x) == Cardinality({i \in DOMAIN s : s[i] = x})

\* the two lists hold the same sub-filters, each as many times
SameSubFilters(s, t) ==
    /\ Len(s) = Len(t)
    /\ \A i \in DOMAIN s : Occurrences(s, s[i]) = Occurrences(t, s[i])

\* C18: after a merge, for each of and/or present in the incoming filter the
\* accumulator's list under that key is its previous list followed by the
\* incoming list (the key is created if absent); every other key of the
\* accumulator, and and/or when the incoming filter lacks them, is as before.
C18_MergeAppendsNeverOverwrites ==
    history # <<>> =>
        LET cur == LastCall.cur_filter
            new == LastCall.new_filter
        IN  /\ \A key \in LogicalOperators \cap DOMAIN new :
                  /\ Has(merged, key)
                  /\ merged[key] = ListOf(cur, key) \o new[key]
            /\ \A key \in DOMAIN cur \ (LogicalOperators \cap DOMAIN new) :
                  Has(merged, key) /\ merged[key] = cur[key]
            /\ DOMAIN merged = DOMAIN cur \cup (LogicalOperators \cap DOMAIN new)

C18_Witness ==
    /\ Len(history) = 2
    /\ Has(LastCall.cur_filter, "and")
    /\ Has(LastCall.cur_filter, "id")
    /\ Has(LastCall.new_filter, "and")
    /\ Has(LastCall.new_filter, "or")
    /\ ~Has(LastCall.cur_filter, "or")
    /\ Len(merged["and"]) = 4

\* two merges X then Y into the accumulator s
TwoMerges == Len(history) = 2

FirstIn == history[1].new_filter

SecondIn == history[2].new_filter

StartFilter == history[1].cur_filter

Swapped ==
    MergeLogicalFilters(MergeLogicalFilters(StartFilter, SecondIn), FirstIn)

Associative ==
    merged = MergeLogicalFilters(StartFilter, MergeLogicalFilters(FirstIn, SecondIn))

Example ==
    /\ StartFilter = EmptyDict
    /\ FirstIn = [and |-> <<SubFilterA>>]
    /\ SecondIn = [and |-> <<SubFilterB>>]

\* the two incoming filters have no sub-filter in common
DisjointSubFilters ==
    \A k1, k2 \in LogicalOperators :
        Range(ListOf(FirstIn, k1)) \cap Range(ListOf(SecondIn, k2)) = {}

\* the two incoming filters have no logical operator in common
DisjointOperators ==
    LogicalOperators \cap DOMAIN FirstIn \cap DOMAIN SecondIn = {}

\* C19 as stated: the merge is associative, {and:[A]} then {and:[B]} gives
\* {and:[A,B]}, and for incoming filters with no sub-filter in common the
\* result is the same whichever of the two is merged first.
C19_SameResultInAnyOrder ==
    TwoMerges =>
        /\ Associative
        /\ Example => merged = [and |-> <<SubFilterA, SubFilterB>>]
        /\ DisjointSubFilters => merged = Swapped

\* C19 amended: the merge is associative, {and:[A]} then {and:[B]} gives
\* {and:[A,B]}; whichever incoming filter is merged first, the result has the
\* same keys and under and/or the same sub-filters, none lost, listed in the
\* order of the merge calls; the results are equal when the incoming filters
\* have no logical operator in common.
C19_SameSubFiltersInCallOrder ==
    TwoMerges =>
        /\ Associative
        /\ Example => merged = [and |-> <<SubFilterA, SubFilterB>>]
        /\ DOMAIN merged = DOMAIN Swapped
        /\ \A key \in DOMAIN merged :
              IF key \in LogicalOperators
              THEN /\ SameSubFilters(merged[key], Swapped[key])
                   /\ merged[key] = ListOf(StartFilter, key) \o ListOf(FirstIn, key)
                                        \o ListOf(SecondIn, key)
              ELSE merged[key] = Swapped[key]
        /\ DisjointOperators => merged = Swapped

C19_Witness ==
    /\ TwoMerges
    /\ Example
    /\ merged # Swapped

(***************************************************************************)
(* Claims about the creation-date constraint of a request.                 *)
(***************************************************************************)
\* the date conditions of a filter: the creationDate entry at top level, and
\* under and the creationDate entries and the bare operator mappings
DateConditions(f) ==
    (IF Has(f, "creationDate") THEN <<f["creationDate"]>> ELSE <<>>)
    \o (IF Has(f, "and")
        THEN LET dated == SelectSeq(f["and"],
                              LAMBDA e : Has(e, "creationDate")
                                         \/ DOMAIN e \cap DateOps # {})
             IN  [i \in DOMAIN dated |->
                     IF Has(dated[i], "creationDate")
                     THEN dated[i]["creationDate"] ELSE dated[i]]
        ELSE <<>>)

UpperBounds(f) ==
    {i \in DOMAIN DateConditions(f) : UpperOf(DateConditions(f)[i]) # None}

LowerBounds(f) ==
    {i \in DOMAIN DateConditions(f) : LowerOf(DateConditions(f)[i]) # None}

Normalized(f) ==
    /\ Cardinality(UpperBounds(f)) <= 1
    /\ Cardinality(LowerBounds(f)) <= 1
    /\ UpperBounds(f) # {} /\ LowerBounds(f) # {} =>
          /\ UpperBounds(f) = LowerBounds(f)
          /\ \A i \in UpperBounds(f) : DOMAIN DateConditions(f)[i] = {"between"}

\* C20: in every request the creation-date constraint is normalized: at most
\* one lower and at most one upper bound, and a lower and an upper bound
\* together are one between: [lower, upper].
C20_DateConstraintNormalized ==
    \A k \in DOMAIN sent : Normalized(sent[k].extra_filter)

(***************************************************************************)
(* Claims about _update_creation_date_filter.                              *)
(***************************************************************************)
UpdateCalled == caller = "_update_creation_date_filter" /\ pc = "done"

\* the existing lower bounds: gt, gte and the lower half of between
ExistingLower(dt_filter) ==
    {dt_filter[k] : k \in DOMAIN dt_filter \cap {"gt", "gte"}}
    \cup (IF Has(dt_filter, "between") THEN {dt_filter["between"][1]} ELSE {})

\* the existing upper bounds: lt, lte and the upper half of between
ExistingUpper(dt_filter) ==
    {dt_filter[k] : k \in DOMAIN dt_filter \cap {"lt", "lte"}}
    \cup (IF Has(dt_filter, "between") THEN {dt_filter["between"][2]} ELSE {})

ClaimedLower ==
    IF args.gte_dt # None THEN args.gte_dt
    ELSE IF ExistingLower(args.cur_dt_filter) = {} THEN None
    ELSE CHOOSE x \in ExistingLower(args.cur_dt_filter) :
            \A y \in ExistingLower(args.cur_dt_filter) : y <= x

ClaimedUpper ==
    IF args.lte_dt # None THEN args.lte_dt
    ELSE IF ExistingUpper(args.cur_dt_filter) = {} THEN None
    ELSE CHOOSE x \in ExistingUpper(args.cur_dt_filter) :
            \A y \in ExistingUpper(args.cur_dt_filter) : x <= y

C22_SkipOnlyInFirstRequest ==
    caller = "direct" =>
        \A k \in DOMAIN sent : sent[k].skip = IF k = 1 THEN args.skip ELSE 0

C22_Witness ==
    /\ caller = "direct"
    /\ args.skip > 0
    /\ Len(sent) >= 2
    /\ pc = "returned"

\* C23: every request asks for limit minus the records accumulated so far,
\* which is at least 1, when a limit is set, and for the default window of
\* 20 when the listing is unbounded.
C23_PageSizeIsRemainingCount ==
    \A k \in DOMAIN sent :
        IF limit = None
        THEN sent[k].limit = DefaultWindow
        ELSE /\ sent[k].limit = limit - Received(k - 1)
             /\ sent[k].limit >= 1

(***************************************************************************)
(* Claims about _restore_circuit_job.                                      *)
(***************************************************************************)
RestoreCalled == caller = "_restore_circuit_job" /\ pc \in {"done", "raised"}

\* the call returned a job built from its record
JobBuilt == pc = "done" /\ ret.kind = "circuit" /\ ret.job_id = args.job_info.job_id

\* the call returned None
NoneReturned == pc = "done" /\ error = "" /\ ret = NoJob

\* C24: on a record whose required fields are missing or mistyped the call
\* fails with IBMBackendApiProtocolError carrying the job id and the cause
\* when raise_error is set, and returns None without raising when it is not;
\* on a well-formed record it returns a job in both modes.
C24_MalformedRaisesOrNone ==
    RestoreCalled =>
        IF args.job_info.malformed
        THEN IF args.raise_error
             THEN /\ pc = "raised"
                  /\ error = "IBMBackendApiProtocolError"
                  /\ reply = [job_id |-> args.job_info.job_id, cause |-> "TypeError"]
             ELSE NoneReturned
        ELSE JobBuilt /\ error = ""

C24_Witness ==
    /\ RestoreCalled
    /\ args.job_info.malformed
    /\ args.raise_error
    /\ args.job_info.job_id = MaxJobs

LacksBackend == ~Has(args.job_info, "backend_name")

\* C25 as stated: with raise_error=False a record that lacks its backend
\* mapping gives None and raises nothing.
C25_NoBackendMappingGivesNone ==
    RestoreCalled /\ ~args.raise_error /\ LacksBackend => NoneReturned

\* C25 amended: with raise_error=False a record that lacks its backend
\* mapping raises nothing; its backend name resolves to "unknown", and the
\* call returns a job on the stand-in for that name when the record is
\* otherwise well-formed and None when it is not.
C25_NoBackendMappingGivesUnknown ==
    RestoreCalled /\ ~args.raise_error /\ LacksBackend =>
        /\ error = ""
        /\ IF args.job_info.malformed
           THEN NoneReturned
           ELSE /\ JobBuilt
                /\ ret.backend = [kind |-> "IBMRetiredBackend", name |-> "unknown"]

C25_Witness ==
    /\ RestoreCalled /\ ~args.raise_error /\ LacksBackend
    /\ ~args.job_info.malformed
    /\ pc = "done"

\* the backend lookup reports not-found for the record's backend name
LookupNotFound == BackendName(args.job_info) \notin ProviderBackends

\* C26: reconstruction never fails because the backend is retired or
\* unknown: when the lookup reports not-found, a stand-in retired backend of
\* that name is used, the job is built on it, and the lookup's exception
\* does not leave the call.
C26_RetiredBackendStandIn ==
    RestoreCalled /\ LookupNotFound =>
        /\ error # "QiskitBackendNotFoundError"
        /\ ~args.job_info.malformed =>
              /\ JobBuilt
              /\ ret.backend = [kind |-> "IBMRetiredBackend",
                                name |-> BackendName(args.job_info)]

C26_Witness ==
    /\ RestoreCalled
    /\ Has(args.job_info, "backend_name")
    /\ args.job_info.backend_name = "ibmq_retired"
    /\ JobBuilt

(***************************************************************************)
(* Claims about failures of the transport.                                 *)
(***************************************************************************)
\* the remote collaborator raised a transport failure during the call
TransportFailed == Has(reply, "kind") /\ reply.kind = "failure"

\* C27 as stated: a transport failure raised by the remote collaborator
\* during jobs() or job() reaches the caller unchanged, and ends the call.
C27_FailureReachesCallerUnchanged ==
    TransportFailed => pc = "raised" /\ error = reply.class

\* C27 amended: a transport failure during a listing request, in jobs() or
\* in job() for a composite id, ends the call and reaches the caller
\* unchanged; a failure of job_get in job() reaches the caller unchanged
\* unless it is an ApiError, which is wrapped in IBMBackendApiError; in no
\* case is the request sent again.
C27_FailureUnchangedButApiErrorOfJobGet ==
    TransportFailed =>
        /\ pc = "raised"
        /\ IF reply.during = "job_get" /\ reply.is_api_error
           THEN error = "IBMBackendApiError"
           ELSE error = reply.class
        /\ reply.during = "job_get" => sent = <<>>

C27_Witness ==
    /\ TransportFailed
    /\ reply.during = "list_jobs_statuses"
    /\ caller = "job"
    /\ Len(job_list) > 0

(***************************************************************************)
(* Claims about jobs(ignore_composite_jobs=True).                          *)
(***************************************************************************)
\* the well-formed records of the listing, in order
WellFormed == SelectSeq(listing, LAMBDA job_info : ~job_info.malformed)

\* C28: with ignore_composite_jobs=True every well-formed record of the
\* listing yields its own entry, whether or not it carries a composite-id
\* tag, and no composite job is fetched or assembled during the call.
C28_IgnoreCompositeJobs ==
    JobsCalled /\ args.ignore_composite_jobs =>
        /\ caller # "job"
        /\ composite_ids = {}
        /\ \A i \in DOMAIN job_list : job_list[i].kind = "circuit"
        /\ pc = "done" =>
              /\ Len(job_list) = Len(WellFormed)
              /\ \A i \in DOMAIN job_list : job_list[i].job_id = WellFormed[i].job_id

C28_Witness ==
    /\ JobsCalled /\ args.ignore_composite_jobs
    /\ pc = "done"
    /\ Len(job_list) >= 1
    /\ Len(listing) > Len(job_list)
    /\ \A i \in DOMAIN listing : Len(CompositeJobId(listing[i])) > 0

(***************************************************************************)
(* Claims about a listing with a limit against any server.                 *)
(***************************************************************************)
\* C29: with a limit n >= 1 the listing ends after at most n requests
\* whatever pages the server returns.
C29_AtMostLimitRequests ==
    caller = "direct" /\ limit # None /\ limit >= 1 =>
        /\ Len(sent) <= limit
        /\ Len(sent) = limit => pc = "returned"

C29_Witness ==
    /\ caller = "direct" /\ limit = MaxLimit
    /\ pc = "returned"
    /\ Len(sent) = limit
    /\ \A k \in DOMAIN pages : Len(pages[k]) = 1
    /\ \A k \in DOMAIN pages : pages[k] = pages[1]

(***************************************************************************)
(* Claims about the elements of the and lists sent.                        *)
(***************************************************************************)
\* the elements of the and list of a filter
AndElements(f) == IF Has(f, "and") THEN Range(f["and"]) ELSE {}

\* C30: every element of an and list of a filter sent to the server is
\* keyed by record fields; a bare operator mapping such as {lte: t} or
\* {gte: t} never appears as an element.
C30_NoBareOperatorInAndList ==
    \A k \in DOMAIN sent :
        \A e \in AndElements(sent[k].extra_filter) : DOMAIN e \cap DateOps = {}

(***************************************************************************)
(* Claims about the caller's date bounds and the end of the listing.       *)
(***************************************************************************)
\* the date bounds the caller put in the filter, None if absent
CallerLower ==
    IF Has(initial_filter, "creationDate")
    THEN LowerOf(initial_filter["creationDate"]) ELSE None

CallerUpper ==
    IF Has(initial_filter, "creationDate")
    THEN UpperOf(initial_filter["creationDate"]) ELSE None

\* C32: the caller's date bound on the side the watermark does not move is
\* kept in every round: descending with start_datetime s, every request
\* bounds creationDate from below by s; ascending with end_datetime e, every
\* request bounds creationDate from above by e.
C32_CallerBoundKept ==
    caller = "direct" =>
        \A k \in DOMAIN sent :
            IF descending
            THEN CallerLower # None => LowerBound(sent[k].extra_filter) = CallerLower
            ELSE CallerUpper # None => UpperBound(sent[k].extra_filter) = CallerUpper

C32_Witness ==
    /\ caller = "direct"
    /\ descending
    /\ Len(sent) >= 3
    /\ CallerLower # None
    /\ CallerUpper # None
    /\ UpperBound(sent[3].extra_filter) # CallerUpper

LastPage == pages[Len(pages)]

LimitReached == Truthy(limit) /\ Len(job_responses) >= limit

\* C33: a non-empty page shorter than the page asked for never ends the
\* listing: the call returns only after an empty page or with the limit
\* reached, and an unbounded listing only after an empty page.
C33_ShortPageNeverEnds ==
    caller = "direct" /\ pc = "returned" =>
        /\ LastPage = <<>> \/ LimitReached
        /\ limit = None => LastPage = <<>>
        /\ \A k \in 1..(Len(pages) - 1) : pages[k] # <<>>

C33_Witness ==
    /\ caller = "direct" /\ pc = "returned"
    /\ limit = None
    /\ Len(pages) >= 3
    /\ \A k \in 1..(Len(pages) - 1) :
          pages[k] # <<>> /\ Len(pages[k]) < sent[k].limit

(***************************************************************************)
(* Claims about the order of the output of jobs().                         *)
(***************************************************************************)
\* the record at position r of the listing is the one job was made from; for
\* a composite job, the first record carrying its composite id
StandsFor(job, r) ==
    IF job.kind = "composite"
    THEN /\ CompositeJobId(listing[r]) # <<>>
         /\ CompositeJobId(listing[r])[1] = job.job_id
         /\ \A q \in 1..(r - 1) :
               \/ CompositeJobId(listing[q]) = <<>>
               \/ CompositeJobId(listing[q])[1] # job.job_id
    ELSE listing[r].job_id = job.job_id

\* the jobs from position j on stand for records at increasing positions
\* from r on
RECURSIVE InOrder(_, _)
InOrder(j, r) ==
    IF j > Len(job_list) THEN TRUE
    ELSE IF r > Len(listing) THEN FALSE
    ELSE IF StandsFor(job_list[j], r) THEN InOrder(j + 1, r + 1)
    ELSE InOrder(j, r + 1)

\* C34: the output of jobs() keeps the order of the records received: the
\* jobs stand for records at increasing positions, a composite job at the
\* position of the first record with its composite id, and the output has
\* no more entries than records were received.
C34_OutputKeepsRecordOrder ==
    /\ InOrder(1, 1)
    /\ Len(job_list) <= Len(listing)

C34_Witness ==
    /\ pc = "done"
    /\ Len(job_list) >= 2
    /\ Len(listing) > Len(job_list)
    /\ \E i, j \in DOMAIN job_list :
          /\ i < j
          /\ job_list[i].kind = "circuit"
          /\ job_list[j].kind = "composite"
          /\ \E r \in DOMAIN listing : r > j /\ StandsFor(job_list[j], r)

(***************************************************************************)
(* jobs() called with date bounds together with status and job_tags.       *)
(***************************************************************************)
DatedArgs ==
    [status : {NoneArg, Member("DONE"), List(<<Member("ERROR"), Str("running")>>)},
     job_tags : {NoneArg},
     job_tags_operator : {"OR"}]
    \cup [status : {NoneArg, List(<<Member("ERROR"), Str("running")>>)},
          job_tags : {List(<<"a", "b">>)},
          job_tags_operator : {"AND", "OR"}]

DatedLimits == {None, MaxLimit}

JobsDated ==
    /\ pc = "idle"
    /\ \E lim \in DatedLimits, start \in OptDates, end \in OptDates,
          desc \in BOOLEAN, f \in DatedArgs :
          JobsCall([limit |-> lim, skip |-> 0, descending |-> desc,
                    start_datetime |-> start, end_datetime |-> end,
                    ignore_composite_jobs |-> FALSE, status |-> f.status,
                    job_tags |-> f.job_tags,
                    job_tags_operator |-> f.job_tags_operator])
    /\ UNCHANGED <<merged, history, store, server_cap, listing, idx, job_list, composite_ids>>
    /\ UNCHANGED <<reply, other>>

NextDated == JobsDated \/ GetJobsRound \/ RestoreStep \/ JobsReturn

SpecDated == InitFilters /\ [][NextDated]_vars

\* the and list of a filter, empty if it has none
AndList(f) == IF Has(f, "and") THEN f["and"] ELSE <<>>

\* keys of the conditions pagination adds or rewrites
PaginationKeys == {"creationDate", "id"}

\* an and element that is a date or id condition
AddedByPagination(e) == DOMAIN e \subseteq (PaginationKeys \cup DateOps)

C35_CallersFilterUnmodified ==
    caller = "direct" => passed.filter = args.api_filter

C35_Witness ==
    /\ caller = "direct"
    /\ pc = "returned"
    /\ Len(sent) >= 3
    /\ Has(args.api_filter, "creationDate")
    /\ api_filter # args.api_filter
    /\ ~passed.shared

=============================================================================
